---- MODULE Spec2Model ----
(***************************************************************************)
(* Wind-chill derivation and city-forecast aggregation of the wind-chill   *)
(* dashboards (test2.py .. test5.py, test7.py, wind-chill-app.py,          *)
(* NorwayApp/updatedapp.py).                                               *)
(*                                                                         *)
(* Number representation.  The scripts compute in floating point.  Here a  *)
(* temperature (air temperature, wind chill, threshold) is an integer      *)
(* count of 1e-7 degC, so that every product of the formula's four-decimal *)
(* coefficients with an input given to 0.1 degC and a power V^0.16 given   *)
(* to 0.01 is exact.  A wind speed is an integer count of 0.1 km/h.  The   *)
(* float values that are no real number are the two values NaN and         *)
(* Complex below.                                                          *)
(***************************************************************************)
EXTENDS Integers, Sequences, FiniteSets, TLC

VARIABLES
    wc_T,       \* wind_chill: argument temp_c
    wc_V,       \* wind_chill: argument wind_kmh
    wc_pc,      \* "call" before the call, "ret" after it
    wc_out,     \* <<returned value>> of the call, <<>> before it returns
    wc_pow,     \* <<base>> handed to ** 0.16 by the call, <<>> if ** was not evaluated
    variant,        \* which script runs: "test2" .. "test5", "test7", "app", "updatedapp"
    page,           \* the dashboard page of this script run
    multi_cities,   \* the selected cities, in selection order
    hours,          \* the forecast-hours slider
    pc,             \* "fetch" (in the fetch loop), "views", "done", "crashed"
    i,              \* position of the fetch loop in multi_cities
    provider,       \* city -> what the provider answered to this run's request
    city_dfs,       \* the dict city_dfs, as its items in insertion order
    extreme_cities, \* the list extreme_cities
    errors,         \* the cities named by an st.error of the fetch loop, in order
    compare_df,     \* the comparison table compare_df (NoTable if the run built none)
    ranking,        \* the leaderboard / summary / ranked frame (NoTable if none)
    alerts,         \* test7: the cities of the frame `alerts`
    exc,            \* the exception that ended the run, "none" if none did
    cycle,          \* the number of this script run in the session
    now,            \* the time of this script run, in seconds
    cache,          \* st.cache_data: city (lat, lon) -> [data, stored]
    requests,       \* city -> the verify modes of this run's requests.get calls
    late,           \* the cities whose requests superseded runs still wait for
    prev,           \* what the previous script run of the session took and showed
    cfg_threshold,  \* the number_input of the alert threshold, in degC
    refresh,        \* the auto-refresh slider, in seconds
    speed,          \* the animation-speed slider, in tenths of a second per hour
    timer,          \* the interval of the st_autorefresh timer in the page, 0 if none
    buttons         \* the pages the navigation buttons this run rendered lead to

wcvars == <<wc_T, wc_V, wc_pc, wc_out, wc_pow>>
plvars == <<variant, page, multi_cities, hours, pc, i, provider, city_dfs,
            extreme_cities, errors, compare_df, ranking, alerts, exc>>
rfvars == <<cycle, now, cache, requests, late, prev, cfg_threshold>>
navvars == <<refresh, speed, timer, buttons>>
vars == <<wcvars, plvars, rfvars, navvars>>

\* float('nan'): what a null entry of a provider array becomes in a DataFrame column.
NaN == 2147483647
\* The value of a negative float raised to a fractional power (a complex number).
Complex == 2147483646

\* A JSON null of a provider array (Python None).
Null == 2147483645

IsReal(x) == x # NaN /\ x # Complex /\ x # Null

\* t tenths of a degree Celsius, in model units of 1e-7 degC.
Deg10(t) == t * 1000000

\* Float comparisons: every comparison with NaN is False.
FGt(a, b) == a # NaN /\ b # NaN /\ a > b
FLt(a, b) == a # NaN /\ b # NaN /\ a < b
FLe(a, b) == a # NaN /\ b # NaN /\ a <= b

\* round(100 * (V/10) ** 0.16) for the wind speeds V (tenths of km/h) the model uses.
PowTable ==
    [V \in {0, 30, 47, 48, 49, 100, 200, 500, 1000} |->
        CASE V = 0    -> 0
          [] V = 30   -> 119
          [] V = 47   -> 128
          [] V = 48   -> 129
          [] V = 49   -> 129
          [] V = 100  -> 145
          [] V = 200  -> 161
          [] V = 500  -> 187
          [] V = 1000 -> 209]

\* wind_kmh ** 0.16, in hundredths.
Pow016(V) ==
    IF V = NaN THEN NaN
    ELSE IF V < 0 THEN Complex
    ELSE PowTable[V]

\* 13.12 + 0.6215*temp_c - 11.37*v + 0.3965*temp_c*v, v in hundredths.
Formula(temp_c, v) ==
    IF temp_c = NaN \/ v = NaN THEN NaN
    ELSE IF v = Complex THEN Complex
    ELSE 131200000 + 6215 * (temp_c \div 10000) - 1137000 * v
         + 3965 * (temp_c \div 1000000) * v

\* Faulty variants of the branch condition: `and` for `or`, `>=` for `>`.
MutIdentityBranchAnd(temp_c, wind_kmh) == FGt(temp_c, Deg10(100)) /\ FLt(wind_kmh, 48)
MutIdentityBranchGe(temp_c, wind_kmh) == (temp_c # NaN /\ temp_c >= Deg10(100)) \/ FLt(wind_kmh, 48)
\* The branch of wind_chill that returns temp_c.
IdentityBranch(temp_c, wind_kmh) == FGt(temp_c, Deg10(100)) \/ FLt(wind_kmh, 48)

\* Faulty variants of wind_chill: the result rounded to 0.1 degC; the
\* wind-speed test of the branch condition left out.
MutWindChillRounded(temp_c, wind_kmh) ==
    IF IdentityBranch(temp_c, wind_kmh) THEN temp_c
    ELSE LET w == Formula(temp_c, Pow016(wind_kmh))
         IN  IF IsReal(w) THEN ((w + 500000) \div 1000000) * 1000000 ELSE w
MutWindChillNoFallback(temp_c, wind_kmh) ==
    IF FGt(temp_c, Deg10(100)) THEN temp_c ELSE Formula(temp_c, Pow016(wind_kmh))
\* Faulty variant: the module-level alert threshold is read in place of the
\* constant 10.
MutWindChillReadsThreshold(temp_c, wind_kmh) ==
    IF (temp_c # NaN /\ temp_c \div 1000000 > 10 * cfg_threshold) \/ FLt(wind_kmh, 48)
    THEN temp_c
    ELSE Formula(temp_c, Pow016(wind_kmh))
wind_chill(temp_c, wind_kmh) ==
    IF IdentityBranch(temp_c, wind_kmh) THEN temp_c
    ELSE Formula(temp_c, Pow016(wind_kmh))

\* The base the call hands to ** 0.16: <<>> when the call returns before it.
PowArg(temp_c, wind_kmh) ==
    IF IdentityBranch(temp_c, wind_kmh) THEN <<>> ELSE <<wind_kmh>>

----------------------------------------------------------------------------
(* The function alone: one call of wind_chill on real arguments.           *)

\* Air temperatures (tenths of degC) and wind speeds (tenths of km/h) of the calls.
TempInputs == {-400, -200, -100, -50, 0, 50, 99, 100, 101, 150, 300}
WindInputs == {-50, 0, 30, 47, 48, 49, 100, 200, 500, 1000}

\* A frame the run has not built.
NoTable == [built |-> FALSE, cols |-> <<>>, rows |-> <<>>]

\* No earlier script run.
NoPrev == [pc |-> "none"]

\* The seconds between two ticks of st_autorefresh: 300 in test7.py, and a
\* value the refresh slider (30..600) offers in the other scripts.
Interval == 300

\* Faulty variant: the timer is armed on every page.
MutAutorefreshAlways(v, p, r) == r
\* The timer a script run leaves in the page: st_autorefresh(interval=...)
\* with the refresh slider's value r, a constant in test7.py and test.py;
\* updatedapp.py does not call it on the City Map page.
st_autorefresh(v, p, r) ==
    IF v = "updatedapp" /\ p = "City Map" THEN 0
    ELSE IF v = "test7" THEN 300
    ELSE IF v = "test" THEN 600
    ELSE r

\* The first run of a session of a fresh server process: nothing cached, no
\* request counted, the threshold and the animation speed (0.5 s) at their
\* defaults, no button rendered yet.
FirstRun ==
    /\ cycle = 1 /\ now = 0 /\ cache = <<>> /\ requests = <<>>
    /\ late = {} /\ prev = NoPrev /\ cfg_threshold = -20
    /\ refresh = Interval /\ speed = 5 /\ buttons = {}

\* No script runs.
PipelineIdle ==
    /\ variant = "none" /\ page = "none" /\ multi_cities = <<>> /\ hours = 0
    /\ pc = "idle" /\ i = 0 /\ provider = <<>> /\ city_dfs = <<>>
    /\ extreme_cities = <<>> /\ errors = <<>> /\ compare_df = NoTable
    /\ ranking = NoTable /\ alerts = <<>> /\ exc = "none"

InitWC ==
    /\ PipelineIdle
    /\ FirstRun
    /\ timer = 0
    /\ wc_T \in {Deg10(t) : t \in TempInputs}
    /\ wc_V \in WindInputs
    /\ wc_pc = "call"
    /\ wc_out = <<>>
    /\ wc_pow = <<>>

CallWindChill ==
    /\ wc_pc = "call"
    /\ wc_pc' = "ret"
    /\ wc_out' = <<wind_chill(wc_T, wc_V)>>
    /\ wc_pow' = PowArg(wc_T, wc_V)
    /\ UNCHANGED <<wc_T, wc_V>>
    /\ UNCHANGED plvars
    /\ UNCHANGED rfvars
    /\ UNCHANGED navvars

NextWC == CallWindChill

SpecWC == InitWC /\ [][NextWC]_vars

\* C1: wind_chill(T, V) returns T unchanged whenever T > 10 (any V) or
\* V < 4.8 (any T).
C1_IdentityFallback ==
    (wc_pc = "ret" /\ (wc_T > Deg10(100) \/ wc_V < 48)) => wc_out = <<wc_T>>

\* A call with T > 10 and a wind of at least 4.8 km/h has returned T.
C1_Witness ==
    wc_pc = "ret" /\ wc_T = Deg10(150) /\ wc_V = 200 /\ wc_out = <<Deg10(150)>>

\* C2: the formula branch (the one that evaluates wind_kmh ** 0.16) is taken
\* exactly when T <= 10 and V >= 4.8; T = 10 and V = 4.8 are on the formula side.
C2_FormulaBranchInclusive ==
    wc_pc = "ret" =>
        /\ (wc_pow # <<>>) <=> (wc_T <= Deg10(100) /\ wc_V >= 48)
        /\ wc_pow # <<>> => wc_pow = <<wc_V>>

\* The call with T exactly 10 and V exactly 4.8 has evaluated the power.
C2_Witness ==
    wc_pc = "ret" /\ wc_T = Deg10(100) /\ wc_V = 48 /\ wc_pow = <<48>>
        /\ wc_out # <<wc_T>>

\* C3: for T <= 10 and V >= 4.8 the call returns
\* 13.12 + 0.6215*T - 11.37*v + 0.3965*T*v with v = V^0.16, every digit of
\* the sum kept (no rounding to the 0.1 degC of the inputs).
C3_FormulaValue ==
    (wc_pc = "ret" /\ wc_T <= Deg10(100) /\ wc_V >= 48) =>
        LET t == wc_T \div 1000000
            v == PowTable[wc_V]
        IN  wc_out = <<131200000 + 621500 * t - 1137000 * v + 3965 * t * v>>

\* T = -10, V = 20: the returned value is no multiple of 0.1 degC.
C3_Witness ==
    wc_pc = "ret" /\ wc_T = Deg10(-100) /\ wc_V = 200
        /\ wc_out = <<-177843500>> /\ wc_out[1] % 1000000 # 0

\* C4: wind_chill is total on real arguments: every call returns a real
\* value, and a negative V never reaches V ** 0.16 (the V < 4.8 branch
\* returns first).
C4_Total ==
    wc_pc = "ret" =>
        /\ Len(wc_out) = 1 /\ IsReal(wc_out[1])
        /\ wc_pow # <<>> => wc_pow[1] >= 48

\* A call with a negative wind speed and T <= 10 has returned T.
C4_Witness ==
    wc_pc = "ret" /\ wc_V < 0 /\ wc_T = Deg10(-400) /\ wc_out = <<wc_T>>
        /\ wc_pow = <<>>

----------------------------------------------------------------------------
(* The aggregation pipeline: one script run (one refresh cycle).            *)
(*                                                                         *)
(* Scaling.  The sliders offer 12..72 forecast hours and the provider      *)
(* answers with a week of hourly samples; the model keeps the two          *)
(* quantities and their order relation (fewer, as many, more samples than  *)
(* hours) at a small scale: hours in 1..MaxHours, 1..MaxSamples samples.   *)
(* A timestamp is the number of the hour it names: all requests of a run   *)
(* are answered for the same days, and ISO-8601 strings order as the hours *)
(* they name.                                                              *)

MaxHours == 2
MaxSamples == 3

Variants == {"test2", "test3", "test4", "test5", "test7", "app", "updatedapp"}

\* The variants whose fetch loop is the one of test2.py.
TestFamily == {"test2", "test3", "test4", "test5"}

\* Two cities of the variant's registry.
Cities(v) == IF v = "test7" THEN {"Oslo", "Toronto"} ELSE {"Oslo", "Mo i Rana"}

\* The pages of each variant.
Pages(v) ==
    CASE v = "test4" -> {"Home", "Wind Chill Heatmap", "Cold Meter Dashboard",
                         "City Map", "Forecast Tables"}
      [] v = "test5" -> {"Home", "Wind Chill Matrix", "Cold Meter Dashboard",
                         "City Map", "Forecast Tables"}
      [] v = "app" -> {"Home", "Multi-city", "Heatmap", "Cold Meter", "City Map"}
      [] v = "updatedapp" -> {"Home", "Leaderboard", "Heatmap", "Cold Meter", "City Map"}
      [] OTHER -> {"single"}

\* The number_input's default, -20 degC.
alert_threshold == Deg10(-200)

\* Hourly samples <<temperature (tenths of degC), wind speed (tenths of km/h)>>
\* a provider array pair can hold: wind chill exactly -20 (calm), about -11.4
\* (windy), and a null temperature.
SampleKinds == {<<-200, 30>>, <<-50, 200>>, <<Null, 200>>}

SampleTemp(k) == IF k[1] = Null THEN Null ELSE Deg10(k[1])

\* A response with an `hourly` object of n samples.
Hourly(s) ==
    [kind |-> "hourly",
     time |-> [n \in DOMAIN s |-> n],
     temperature_2m |-> [n \in DOMAIN s |-> SampleTemp(s[n])],
     windspeed_10m |-> [n \in DOMAIN s |-> s[n][2]]]

WellFormedResponses ==
    {Hourly(s) : s \in UNION {[1..n -> SampleKinds] : n \in 1..MaxSamples}}

\* `hourly` arrays of unequal length: windspeed_10m lacks its last entry.
MismatchedResponses ==
    {[kind |-> "hourly",
      time |-> [k \in 1..n |-> k],
      temperature_2m |-> [k \in 1..n |-> Deg10(-50)],
      windspeed_10m |-> [k \in 1..(n - 1) |-> 200]] : n \in 2..MaxSamples}

\* fetch_forecast raises (timeout, connection error, raise_for_status).
FetchError == [kind |-> "error", time |-> <<>>, temperature_2m |-> <<>>,
               windspeed_10m |-> <<>>]
\* A JSON body without the `hourly` key.
NoHourly == [kind |-> "nohourly", time |-> <<>>, temperature_2m |-> <<>>,
             windspeed_10m |-> <<>>]

\* Two-sample responses whose `time` array does not start at hour 1 (the
\* forecast of a later request: the arrays start at the day of the request)
\* or is not ascending.
OddTimeResponses ==
    {[Hourly(<<<<-50, 200>>, <<-200, 30>>>>) EXCEPT !.time = t] : t \in {<<2, 3>>, <<2, 1>>}}

\* What the provider can answer to one request of variant v.
Responses(v) ==
    IF v = "test7" THEN WellFormedResponses \cup {FetchError}
    ELSE WellFormedResponses \cup MismatchedResponses \cup OddTimeResponses
            \cup {FetchError, NoHourly}

WellFormed(r) ==
    /\ r.kind = "hourly"
    /\ Len(r.temperature_2m) = Len(r.time)
    /\ Len(r.windspeed_10m) = Len(r.time)

\* Faulty variant of the slice: the array is not cut.
MutSliceWhole(arr, h) == arr
\* arr[:h]
Slice(arr, h) == SubSeq(arr, 1, IF Len(arr) < h THEN Len(arr) ELSE h)

\* A list of floats and nulls as a DataFrame column: a null is NaN in a float
\* column; a list of nulls only is an object column of None.
Column(arr) ==
    IF \A k \in DOMAIN arr : arr[k] = Null THEN arr
    ELSE [k \in DOMAIN arr |-> IF arr[k] = Null THEN NaN ELSE arr[k]]

\* wind_chill on a row raises TypeError when it compares None with a number.
RowRaises(temp_c, wind_kmh) ==
    \/ temp_c = Null
    \/ ~FGt(temp_c, Deg10(100)) /\ wind_kmh = Null

Raised(e) == [exc |-> e, df |-> <<>>]

\* pd.DataFrame({...[:hours]}) and df.apply(wind_chill) on a JSON body.
BuildDf(data, h) ==
    IF data.kind # "hourly" THEN Raised("KeyError")
    ELSE
    LET time == Slice(data.time, h)
        temp == Slice(data.temperature_2m, h)
        wind == Slice(data.windspeed_10m, h)
    IN  IF Len(temp) # Len(time) \/ Len(wind) # Len(time) THEN Raised("ValueError")
        ELSE
        LET T == Column(temp)
            V == Column(wind)
        IN  IF \E k \in DOMAIN time : RowRaises(T[k], V[k]) THEN Raised("TypeError")
            ELSE [exc |-> "none",
                  df |-> [k \in DOMAIN time |->
                            [Time |-> time[k], Temp |-> T[k], Wind |-> V[k],
                             Chill |-> wind_chill(T[k], V[k])]]]

\* df["Wind Chill (degC)"].min(): NaN entries are skipped; NaN if none is left.
SeriesMin(df) ==
    LET vals == {df[k].Chill : k \in DOMAIN df} \ {NaN}
    IN  IF vals = {} THEN NaN ELSE CHOOSE m \in vals : \A x \in vals : m <= x

\* df["Wind Chill (degC)"].min() <= alert_threshold
IsExtreme(df) == FLe(SeriesMin(df), alert_threshold)

RangeOf(seq) == {seq[k] : k \in DOMAIN seq}

\* The keys of city_dfs in insertion order, membership and lookup.
DfKeys == [k \in DOMAIN city_dfs |-> city_dfs[k].city]
HasDf(c) == \E k \in DOMAIN city_dfs : city_dfs[k].city = c
DfOf(c) == (CHOOSE e \in RangeOf(city_dfs) : e.city = c).df

\* A dict that puts a new key before the others.
MutSetItemFront(d, city, df) == <<[city |-> city, df |-> df]>> \o d

\* d[city] = df: the value of a key already present is replaced in place, a
\* new key comes after the others.
SetItem(d, city, df) ==
    IF \E k \in DOMAIN d : d[k].city = city
    THEN [k \in DOMAIN d |-> IF d[k].city = city THEN [city |-> city, df |-> df] ELSE d[k]]
    ELSE Append(d, [city |-> city, df |-> df])

\* Sequences over S without repetition, of length at most 2.
Selections(S) ==
    {<<>>} \cup {<<a>> : a \in S} \cup {s \in S \X S : s[1] # s[2]}

\* No call of wind_chill is followed on its own.
WindChillIdle ==
    wc_T = 0 /\ wc_V = 0 /\ wc_pc = "idle" /\ wc_out = <<>> /\ wc_pow = <<>>

Init ==
    /\ WindChillIdle
    /\ FirstRun
    /\ variant \in Variants
    /\ page \in Pages(variant)
    /\ timer = st_autorefresh(variant, page, refresh)
    /\ multi_cities \in Selections(Cities(variant))
    /\ hours \in 1..MaxHours
    /\ pc = IF multi_cities = <<>> THEN "views" ELSE "fetch"
    /\ i = 1
    /\ provider = <<>>
    /\ city_dfs = <<>>
    /\ extreme_cities = <<>>
    /\ errors = <<>>
    /\ compare_df = NoTable
    /\ ranking = NoTable
    /\ alerts = <<>>
    /\ exc = "none"

\* The loop moves on to the next city, or leaves for the views.
Advance ==
    /\ i' = i + 1
    /\ pc' = IF i + 1 > Len(multi_cities) THEN "views" ELSE "fetch"
    /\ exc' = "none"

\* An uncaught exception ends the script run.
Crash(e) ==
    /\ pc' = "crashed"
    /\ exc' = e
    /\ i' = i

\* test2.py .. test5.py: try/except around fetch_forecast only; the frame is
\* built and the alert decided after it.
LoopTest(city, data) ==
    /\ IF data.kind = "error"
       THEN /\ errors' = Append(errors, city)
            /\ Advance
            /\ UNCHANGED <<city_dfs, extreme_cities>>
       ELSE LET b == BuildDf(data, hours) IN
            IF b.exc # "none"
            THEN /\ Crash(b.exc)
                 /\ UNCHANGED <<city_dfs, extreme_cities, errors>>
            ELSE /\ city_dfs' = SetItem(city_dfs, city, b.df)
                 /\ extreme_cities' =
                        IF IsExtreme(b.df) THEN Append(extreme_cities, city)
                        ELSE extreme_cities
                 /\ Advance
                 /\ UNCHANGED errors
    /\ UNCHANGED <<variant, page, multi_cities, hours, compare_df, ranking, alerts>>
    /\ UNCHANGED wcvars
    /\ UNCHANGED navvars

FetchLoopTest ==
    /\ pc = "fetch" /\ variant \in TestFamily
    /\ \E data \in Responses(variant) :
        /\ provider' = (multi_cities[i] :> data) @@ provider
        /\ LoopTest(multi_cities[i], data)
    /\ UNCHANGED rfvars

\* wind-chill-app.py: fetch, frame and wind chill all inside the try.
LoopApp(city, data) ==
    /\ LET b == IF data.kind = "error" THEN Raised("RequestException")
                ELSE BuildDf(data, hours) IN
       IF b.exc # "none"
       THEN /\ errors' = Append(errors, city)
            /\ UNCHANGED city_dfs
       ELSE /\ city_dfs' = SetItem(city_dfs, city, b.df)
            /\ UNCHANGED errors
    /\ Advance
    /\ UNCHANGED <<variant, page, multi_cities, hours, extreme_cities,
                   compare_df, ranking, alerts>>
    /\ UNCHANGED wcvars
    /\ UNCHANGED navvars

FetchLoopApp ==
    /\ pc = "fetch" /\ variant = "app"
    /\ \E data \in Responses(variant) :
        /\ provider' = (multi_cities[i] :> data) @@ provider
        /\ LoopApp(multi_cities[i], data)
    /\ UNCHANGED rfvars

\* updatedapp.py: no try at all.
LoopUpdated(city, data) ==
    /\ LET b == IF data.kind = "error" THEN Raised("RequestException")
                ELSE BuildDf(data, hours) IN
       IF b.exc # "none"
       THEN /\ Crash(b.exc)
            /\ UNCHANGED city_dfs
       ELSE /\ city_dfs' = SetItem(city_dfs, city, b.df)
            /\ Advance
    /\ UNCHANGED <<variant, page, multi_cities, hours, extreme_cities, errors,
                   compare_df, ranking, alerts>>
    /\ UNCHANGED wcvars
    /\ UNCHANGED navvars

FetchLoopUpdated ==
    /\ pc = "fetch" /\ variant = "updatedapp"
    /\ \E data \in Responses(variant) :
        /\ provider' = (multi_cities[i] :> data) @@ provider
        /\ LoopUpdated(multi_cities[i], data)
    /\ UNCHANGED rfvars

\* scoring.calculate_wind_chill, the wind-chill model of test7.py.
calculate_wind_chill(temperature, wind_speed) == wind_chill(temperature, wind_speed)

\* load_city_data's frame with the columns city and wind_chill added; a
\* missing observation is NaN in meteostat's float columns.
BuildObserved(data) ==
    [k \in DOMAIN data.time |->
        LET T == IF data.temperature_2m[k] = Null THEN NaN ELSE data.temperature_2m[k]
            V == IF data.windspeed_10m[k] = Null THEN NaN ELSE data.windspeed_10m[k]
        IN  [Time |-> data.time[k], Temp |-> T, Wind |-> V,
             Chill |-> calculate_wind_chill(T, V)]]

\* test7.py: no try, no horizon; every frame is appended to all_data.
LoopTest7(city, data) ==
    /\ IF data.kind = "error"
       THEN /\ Crash("Exception")
            /\ UNCHANGED city_dfs
       ELSE /\ city_dfs' = SetItem(city_dfs, city, BuildObserved(data))
            /\ Advance
    /\ UNCHANGED <<variant, page, multi_cities, hours, extreme_cities, errors,
                   compare_df, ranking, alerts>>
    /\ UNCHANGED wcvars
    /\ UNCHANGED navvars

FetchLoopTest7 ==
    /\ pc = "fetch" /\ variant = "test7"
    /\ \E data \in Responses(variant) :
        /\ provider' = (multi_cities[i] :> data) @@ provider
        /\ LoopTest7(multi_cities[i], data)
    /\ UNCHANGED rfvars

----------------------------------------------------------------------------
(* Frames and their joins.                                                  *)

\* An ascending sequence of the integers of S.
RECURSIVE SortedSeq(_)
SortedSeq(S) ==
    IF S = {} THEN <<>>
    ELSE LET m == CHOOSE x \in S : \A y \in S : x <= y
         IN  <<m>> \o SortedSeq(S \ {m})

\* df[["Time", Temp, Wind Chill]] with the two value columns renamed after the city.
CityFrame(city, df) ==
    [built |-> TRUE,
     cols |-> <<city>>,
     rows |-> [k \in DOMAIN df |->
                [Time |-> df[k].Time, cells |-> (city :> <<df[k].Temp, df[k].Chill>>)]]]

Times(F) == {F.rows[k].Time : k \in DOMAIN F.rows}

\* The value columns of frame F at key t; NaN where F has no row of that key.
CellsAt(F, t) ==
    IF t \in Times(F) THEN (CHOOSE r \in RangeOf(F.rows) : r.Time = t).cells
    ELSE [c \in RangeOf(F.cols) |-> <<NaN, NaN>>]

\* Faulty variant of the outer join: the keys of L, then the keys only R
\* has, unsorted.
MutOuterMergeUnsorted(L, R) ==
    [built |-> TRUE,
     cols |-> L.cols \o R.cols,
     rows |-> LET more == SelectSeq(R.rows, LAMBDA r : r.Time \notin Times(L))
                  keys == [k \in DOMAIN L.rows |-> L.rows[k].Time]
                            \o [k \in DOMAIN more |-> more[k].Time]
              IN  [k \in DOMAIN keys |->
                    [Time |-> keys[k], cells |-> CellsAt(L, keys[k]) @@ CellsAt(R, keys[k])]]]
\* L.merge(R, on="Time", how="outer"): the union of the keys, sorted.
OuterMerge(L, R) ==
    [built |-> TRUE,
     cols |-> L.cols \o R.cols,
     rows |-> LET keys == SortedSeq(Times(L) \cup Times(R))
              IN  [k \in DOMAIN keys |->
                    [Time |-> keys[k], cells |-> CellsAt(L, keys[k]) @@ CellsAt(R, keys[k])]]]

\* L.merge(R, on="Time"): the keys of both, in L's order.
InnerMerge(L, R) ==
    [built |-> TRUE,
     cols |-> L.cols \o R.cols,
     rows |-> LET keep == SelectSeq(L.rows, LAMBDA r : r.Time \in Times(R))
              IN  [k \in DOMAIN keep |->
                    [Time |-> keep[k].Time,
                     cells |-> keep[k].cells @@ CellsAt(R, keep[k].Time)]]]

\* DataFrame.empty
Empty(F) == F.rows = <<>> \/ F.cols = <<>>

\* The loop `compare_df = temp if compare_df.empty else compare_df.merge(temp, ...)`
\* over the cities, from the frame acc, with how="outer".
RECURSIVE CompareOuter(_, _)
CompareOuter(cities, acc) ==
    IF cities = <<>> THEN acc
    ELSE LET temp == CityFrame(Head(cities), DfOf(Head(cities)))
         IN  CompareOuter(Tail(cities), IF Empty(acc) THEN temp ELSE OuterMerge(acc, temp))

\* The same loop with the default (inner) merge.
RECURSIVE CompareInner(_, _)
CompareInner(cities, acc) ==
    IF cities = <<>> THEN acc
    ELSE LET temp == CityFrame(Head(cities), DfOf(Head(cities)))
         IN  CompareInner(Tail(cities), IF Empty(acc) THEN temp ELSE InnerMerge(acc, temp))

\* pd.DataFrame()
EmptyFrame == [built |-> TRUE, cols |-> <<>>, rows |-> <<>>]

\* Row a sorts strictly before row b by wind chill; NaN sorts last.
Before(a, b, ascending) ==
    /\ a.Chill # NaN
    /\ b.Chill = NaN \/ (IF ascending THEN a.Chill < b.Chill ELSE a.Chill > b.Chill)

\* The permutations of 1..n.
Perms(n) == {p \in [1..n -> 1..n] : \A a, b \in 1..n : a # b => p[a] # p[b]}

\* sort_values by wind chill with the default kind="quicksort", which pandas
\* documents as not stable (the registries hold 28 cities, more than the 16
\* elements numpy sorts by insertion): every arrangement in wind-chill order
\* is a possible result.  Rows without a value (NaN) are appended last in
\* their original order.
SortValues(rows, ascending) ==
    LET n == Len(rows)
        InOrder(p) ==
            \A j, k \in 1..n : j < k =>
                /\ ~Before(rows[p[k]], rows[p[j]], ascending)
                /\ (rows[p[j]].Chill = NaN /\ rows[p[k]].Chill = NaN) => p[j] < p[k]
    IN  {[k \in 1..n |-> rows[p[k]]] : p \in {q \in Perms(n) : InOrder(q)}}

\* The row of df a view reads: iloc[0], iloc[hours-1] or iloc[-1].
RowAt(df, which) ==
    CASE which = "first" -> df[1]
      [] which = "hours" -> df[hours]
      [] which = "last" -> df[Len(df)]

\* One row (city, temperature, wind chill) per city of `cities`.
RankRows(cities, which) ==
    [j \in DOMAIN cities |->
        LET r == RowAt(DfOf(cities[j]), which)
        IN  [City |-> cities[j], Temp |-> r.Temp, Chill |-> r.Chill]]

Ranked(rows) == [built |-> TRUE, cols |-> <<"City", "Temp", "Chill">>, rows |-> rows]

----------------------------------------------------------------------------
(* The views of each variant, computed after the fetch loop.                *)

Selected == RangeOf(multi_cities)
AnyMissing == \E c \in Selected : ~HasDf(c)
AnyShort == \E c \in Selected : HasDf(c) /\ Len(DfOf(c)) < hours
AllShort == \A c \in Selected : HasDf(c) /\ Len(DfOf(c)) < hours

\* [city_dfs[c][col].iloc[hours-1] for c in multi_cities]: the first city in
\* selection order that has no frame (KeyError) or too short a one (IndexError).
IlocHoursExc ==
    LET bad == {j \in DOMAIN multi_cities :
                    ~HasDf(multi_cities[j]) \/ Len(DfOf(multi_cities[j])) < hours}
    IN  IF bad = {} THEN "none"
        ELSE LET j == CHOOSE x \in bad : \A y \in bad : x <= y
             IN  IF HasDf(multi_cities[j]) THEN "IndexError" ELSE "KeyError"

\* for hour_idx in range(hours): for city in multi_cities:
\*     city_dfs[city][col].iloc[hour_idx]
\* A missing city raises at hour 0, a short frame at its first missing hour.
HourLoopExc ==
    IF AnyMissing THEN "KeyError" ELSE IF AnyShort THEN "IndexError" ELSE "none"

\* city_dfs[city] for city in multi_cities
LookupExc == IF AnyMissing THEN "KeyError" ELSE "none"

\* px.imshow(z.T, x=<hours labels>): the labels must be as many as the
\* longest column of z.
ImshowExc ==
    IF AnyMissing THEN "KeyError" ELSE IF AllShort THEN "ValueError" ELSE "none"

\* The pages the st.button(..., on_click=go_to_page) calls of a page block
\* lead to.  test5.py: the four Quick Access buttons on Home, Back to Home
\* at the end of every other block.  wind-chill-app.py: the Quick Access
\* buttons in the else branch of `if not multi_cities`, Back to Home after
\* the animation loop of `elif multi_cities and ...`.
NavButtons(v, p, sel) ==
    CASE v = "test5" -> IF p = "Home" THEN Pages(v) \ {"Home"} ELSE {"Home"}
      [] v = "app" -> IF sel = <<>> THEN {}
                      ELSE IF p = "Home" THEN Pages(v) \ {"Home"} ELSE {"Home"}
      [] OTHER -> {}

\* The run ends: with exception e, raised in the page block before its
\* buttons, or with the views cmp and rnk and the buttons shown.
Finish(e, cmp, rnk) ==
    /\ pc' = IF e = "none" THEN "done" ELSE "crashed"
    /\ exc' = e
    /\ compare_df' = IF e = "none" THEN cmp ELSE compare_df
    /\ ranking' = IF e = "none" THEN rnk ELSE ranking
    /\ buttons' = IF e = "none" THEN NavButtons(variant, page, multi_cities) ELSE {}
    /\ UNCHANGED <<variant, page, multi_cities, hours, i, provider, city_dfs,
                   extreme_cities, errors>>
    /\ UNCHANGED <<refresh, speed, timer>>
    /\ UNCHANGED wcvars
    /\ UNCHANGED rfvars

\* test2.py: comparison chart over city_dfs.items(), map, tables, alert.
RenderTest2 ==
    /\ pc = "views" /\ variant = "test2"
    /\ Finish("none",
              IF city_dfs # <<>> THEN CompareOuter(DfKeys, EmptyFrame) ELSE NoTable,
              NoTable)
    /\ UNCHANGED alerts

\* test3.py: st.stop() after a warning when nothing is selected; else the
\* summary at iloc[0] sorted warmest first, the comparison chart over
\* city_dfs.items(), map, tables, alert.  sort_values on the column-less
\* frame of an empty summary (every fetch failed) raises KeyError.
RenderTest3 ==
    /\ pc = "views" /\ variant = "test3"
    /\ IF multi_cities = <<>> THEN Finish("none", NoTable, NoTable)
       ELSE IF city_dfs = <<>> THEN Finish("KeyError", NoTable, NoTable)
       ELSE \E s \in SortValues(RankRows(DfKeys, "first"), FALSE) :
                Finish("none", CompareOuter(DfKeys, EmptyFrame), Ranked(s))
    /\ UNCHANGED alerts

\* The Home page of test4.py and test5.py: city_dfs[city] for every selected city.
HomeCompare ==
    IF multi_cities = <<>> THEN Finish("none", NoTable, NoTable)
    ELSE IF AnyMissing THEN Finish("KeyError", NoTable, NoTable)
    ELSE Finish("none", CompareOuter(multi_cities, EmptyFrame), NoTable)

\* test4.py: the page chosen in the sidebar, then the alert.
RenderTest4 ==
    /\ pc = "views" /\ variant = "test4"
    /\ CASE page = "Home" -> HomeCompare
         [] page = "Wind Chill Heatmap" ->
                Finish(IF multi_cities = <<>> THEN "none" ELSE HourLoopExc, NoTable, NoTable)
         [] page = "Cold Meter Dashboard" ->
                Finish(IF multi_cities = <<>> THEN "none" ELSE LookupExc, NoTable, NoTable)
         [] OTHER -> Finish("none", NoTable, NoTable)
    /\ UNCHANGED alerts

\* test5.py: the page of st.session_state, then the alert.
RenderTest5 ==
    /\ pc = "views" /\ variant = "test5"
    /\ CASE page = "Home" -> HomeCompare
         [] page = "Wind Chill Matrix" ->
                Finish(IF multi_cities = <<>> THEN "none" ELSE ImshowExc, NoTable, NoTable)
         [] page = "Cold Meter Dashboard" ->
                Finish(IF multi_cities = <<>> THEN "none" ELSE HourLoopExc, NoTable, NoTable)
         [] OTHER -> Finish("none", NoTable, NoTable)
    /\ UNCHANGED alerts

\* wind-chill-app.py: the leaderboard at hour hours-1 on Home; on the other
\* pages the animation over range(hours), each frame followed by the tables
\* of every selected city.  compare_df is the frame of the last hour.
RenderApp ==
    /\ pc = "views" /\ variant = "app"
    /\ IF multi_cities = <<>> THEN Finish("none", NoTable, NoTable)
       ELSE CASE page = "Home" ->
                    IF IlocHoursExc # "none" THEN Finish(IlocHoursExc, NoTable, NoTable)
                    ELSE \E s \in SortValues(RankRows(multi_cities, "hours"), TRUE) :
                            Finish("none", NoTable, Ranked(s))
              [] page = "Multi-city" ->
                    IF AnyMissing THEN Finish("KeyError", NoTable, NoTable)
                    ELSE Finish("none", CompareInner(multi_cities, EmptyFrame), NoTable)
              [] page = "Heatmap" -> Finish(ImshowExc, NoTable, NoTable)
              [] OTHER -> Finish(HourLoopExc, NoTable, NoTable)
    /\ UNCHANGED alerts

\* updatedapp.py: the page of the sidebar, then the forecast tables.
\* make_subplots(rows=0) of the Cold Meter and px.imshow of an empty frame
\* with one label raise ValueError.
RenderUpdated ==
    /\ pc = "views" /\ variant = "updatedapp"
    /\ CASE page = "Home" ->
                Finish("none", CompareInner(multi_cities, EmptyFrame), NoTable)
         [] page = "Leaderboard" ->
                IF IlocHoursExc # "none" THEN Finish(IlocHoursExc, NoTable, NoTable)
                ELSE \E s \in SortValues(RankRows(multi_cities, "hours"), TRUE) :
                        Finish("none", NoTable, Ranked(s))
         [] page = "Heatmap" -> Finish(ImshowExc, NoTable, NoTable)
         [] page = "Cold Meter" ->
                Finish(IF multi_cities = <<>> THEN "ValueError" ELSE "none", NoTable, NoTable)
         [] OTHER -> Finish("none", NoTable, NoTable)
    /\ UNCHANGED alerts

\* test7.py: the latest row of every city ranked by wind chill; the alert is
\* raised for the ranked rows below -15.
RenderTest7 ==
    /\ pc = "views" /\ variant = "test7"
    /\ IF multi_cities = <<>>
       THEN /\ Finish("none", NoTable, NoTable)
            /\ UNCHANGED alerts
       ELSE \E ranked \in SortValues(RankRows(DfKeys, "last"), TRUE) :
                LET hit == SelectSeq(ranked, LAMBDA r : FLt(r.Chill, Deg10(-150)))
                IN  /\ Finish("none", NoTable, Ranked(ranked))
                    /\ alerts' = [k \in DOMAIN hit |-> hit[k].City]

Next ==
    \/ FetchLoopTest
    \/ FetchLoopApp
    \/ FetchLoopUpdated
    \/ FetchLoopTest7
    \/ RenderTest2
    \/ RenderTest3
    \/ RenderTest4
    \/ RenderTest5
    \/ RenderApp
    \/ RenderUpdated
    \/ RenderTest7

Spec == Init /\ [][Next]_vars

----------------------------------------------------------------------------
(* Properties of the pipeline.                                              *)

Finished == pc \in {"done", "crashed"}
Requested == DOMAIN provider

\* A response with the expected shape and no null entry.
Clean(r) ==
    /\ WellFormed(r)
    /\ \A k \in DOMAIN r.time : r.temperature_2m[k] # Null /\ r.windspeed_10m[k] # Null

\* A payload without `hourly`, or with parallel arrays of unequal length.
Malformed(r) == r.kind = "nohourly" \/ (r.kind = "hourly" /\ ~WellFormed(r))

\* C5: every hourly sample of every series built by the fetch loop has a
\* defined wind chill (a real number, never null or NaN), whatever entries,
\* null included, the provider arrays held.
C5_WindChillDefined ==
    variant \in TestFamily \cup {"app", "updatedapp"} =>
        \A k \in DOMAIN city_dfs :
            \A j \in DOMAIN city_dfs[k].df : IsReal(city_dfs[k].df[j].Chill)

\* C6: the series of a fetched location is exactly the first min(hours, n)
\* samples of the provider's n-sample arrays: never longer than the horizon,
\* and shorter, not padded, when the provider returned fewer samples.
C6_SeriesIsPrefix ==
    variant \in TestFamily \cup {"app", "updatedapp"} =>
        \A k \in DOMAIN city_dfs :
            LET r == provider[city_dfs[k].city]
                df == city_dfs[k].df
                n == Len(r.time)
                m == IF hours < n THEN hours ELSE n
            IN  WellFormed(r) =>
                    /\ Len(df) = m
                    /\ Len(df) <= hours
                    /\ \A j \in 1..m :
                        /\ df[j].Time = r.time[j]
                        /\ df[j].Wind = r.windspeed_10m[j]
                        /\ df[j].Temp = IF r.temperature_2m[j] = Null THEN NaN
                                        ELSE r.temperature_2m[j]

\* One fetched series is shorter than the horizon because the provider
\* returned fewer samples, another was cut to the horizon.
C6_Witness ==
    /\ pc = "done" /\ hours = 2 /\ Len(city_dfs) = 2
    /\ Len(provider[city_dfs[1].city].time) = 1 /\ Len(city_dfs[1].df) = 1
    /\ Len(provider[city_dfs[2].city].time) = 3 /\ Len(city_dfs[2].df) = 2

\* The timestamps of all fetched series.
AllTimes == UNION {{city_dfs[k].df[j].Time : j \in DOMAIN city_dfs[k].df} : k \in DOMAIN city_dfs}

\* C7: the comparison table is the outer join of all fetched series on the
\* timestamp: one row per timestamp of any series, one column pair per
\* fetched location, and an absent value where a location has no sample.
C7_CompareIsOuterJoin ==
    (pc = "done" /\ compare_df.built) =>
        /\ {compare_df.rows[k].Time : k \in DOMAIN compare_df.rows} = AllTimes
        /\ Len(compare_df.rows) = Cardinality(AllTimes)
        /\ RangeOf(compare_df.cols) = RangeOf(DfKeys)
        /\ Len(compare_df.cols) = Len(DfKeys)
        /\ \A k \in DOMAIN compare_df.rows : \A c \in RangeOf(DfKeys) :
            LET t == compare_df.rows[k].Time
                at == {j \in DOMAIN DfOf(c) : DfOf(c)[j].Time = t}
            IN  compare_df.rows[k].cells[c] =
                    IF at = {} THEN <<NaN, NaN>>
                    ELSE LET j == CHOOSE x \in at : TRUE
                         IN  <<DfOf(c)[j].Temp, DfOf(c)[j].Chill>>

\* The alert set of the variant and the threshold it is decided against.
AlertSet == IF variant = "test7" THEN RangeOf(alerts) ELSE RangeOf(extreme_cities)
AlertThreshold == IF variant = "test7" THEN Deg10(-150) ELSE alert_threshold

\* C8: a location is in the alert set if and only if the minimum wind chill
\* over its entire series is <= the threshold (equality included; any hour
\* of the window counts, not only the latest).
C8_AlertIffSeriesMin ==
    (pc = "done" /\ variant \in TestFamily \cup {"test7"}) =>
        \A k \in DOMAIN city_dfs :
            (city_dfs[k].city \in AlertSet)
                <=> FLe(SeriesMin(city_dfs[k].df), AlertThreshold)

\* C9: if the fetch of one location fails while the fetch of another
\* succeeds in the same cycle, the cycle completes, its views hold the
\* second and not the first, a warning names the first, and no exception
\* escapes (test3.py, test4.py, wind-chill-app.py).
C9_PartialFailureIsolation ==
    (/\ Finished /\ variant \in {"test3", "test4", "app"}
     /\ Requested = Selected
     /\ \E a \in Requested, b \in Requested :
            provider[a].kind = "error" /\ Clean(provider[b])
     /\ \A c \in Requested :
            provider[c].kind = "error"
            \/ (Clean(provider[c]) /\ Len(provider[c].time) >= hours))
    => /\ pc = "done" /\ exc = "none"
       /\ \A c \in Requested :
            IF provider[c].kind = "error"
            THEN /\ c \in RangeOf(errors) /\ ~HasDf(c) /\ c \notin AlertSet
                 /\ compare_df.built => c \notin RangeOf(compare_df.cols)
                 /\ ranking.built => \A k \in DOMAIN ranking.rows : ranking.rows[k].City # c
            ELSE /\ c \notin RangeOf(errors) /\ HasDf(c)
                 /\ compare_df.built => c \in RangeOf(compare_df.cols)
                 /\ ranking.built => \E k \in DOMAIN ranking.rows : ranking.rows[k].City = c

\* C10: a malformed payload (no `hourly`, or parallel arrays of unequal
\* length) is handled like a failed fetch: the location is left out with a
\* warning naming it, and the cycle does not abort in the fetch loop.
C10_MalformedHandledAsFailure ==
    (/\ pc \in {"views", "done", "crashed"}
     /\ variant \in {"test2", "app", "updatedapp"})
    => \A c \in Requested :
            Malformed(provider[c]) =>
                /\ c \in RangeOf(errors)
                /\ ~HasDf(c)
                /\ ~(pc = "crashed" /\ i <= Len(multi_cities))

\* The ranking is sorted warmest first in test3.py, coldest first elsewhere.
Descending == variant = "test3"
\* The position of city c in the selection list.
SelIndex(c) == CHOOSE j \in DOMAIN multi_cities : multi_cities[j] = c

\* C11: the ranking is a permutation of the locations fetched in this cycle,
\* every row holds its location's sample of one and the same hour, and the
\* rows are in wind-chill order (ascending; descending warm-to-cold).
C11_RankingAtOneHour ==
    (pc = "done" /\ ranking.built) =>
        LET R == ranking.rows IN
        /\ Len(R) = Len(DfKeys)
        /\ {R[k].City : k \in DOMAIN R} = RangeOf(DfKeys)
        /\ R = <<>> \/ \E t \in AllTimes : \A k \in DOMAIN R :
                \E j \in DOMAIN DfOf(R[k].City) :
                    LET smp == DfOf(R[k].City)[j]
                    IN  smp.Time = t /\ smp.Temp = R[k].Temp /\ smp.Chill = R[k].Chill
        /\ \A j, k \in DOMAIN R :
                (j < k /\ IsReal(R[j].Chill) /\ IsReal(R[k].Chill)) =>
                    IF Descending THEN R[j].Chill >= R[k].Chill
                    ELSE R[j].Chill <= R[k].Chill

\* C12: two locations with identical wind chill at the reference hour stand
\* in the ranking in the order of the selection list, for the ascending and
\* for the descending sort.
C12_RankingStable ==
    (pc = "done" /\ ranking.built) =>
        LET R == ranking.rows IN
        \A j, k \in DOMAIN R :
            (j < k /\ IsReal(R[j].Chill) /\ R[j].Chill = R[k].Chill) =>
                SelIndex(R[j].City) < SelIndex(R[k].City)

----------------------------------------------------------------------------
(* The script runs of one session.  Streamlit runs the whole script again  *)
(* on every tick of st_autorefresh and on every change of a widget.  The   *)
(* run in progress is asked to stop and stops at its next st.* call; for a *)
(* run blocked in requests.get that is after fetch_forecast has returned   *)
(* and st.cache_data has stored its value, and the new run may by then be  *)
(* under way.  st.cache_data lets one caller at a time compute a key.  The *)
(* cache outlives the runs; every other name is bound anew by each run, in *)
(* a namespace of its own.                                                 *)

MaxCycles == 2

\* The variants followed over several runs.
RfVariants == {"test2", "test3", "app", "updatedapp", "test7"}

\* The pages followed: the animated comparison of wind-chill-app.py, the
\* first page and the map of updatedapp.py.
RfPages(v) ==
    CASE v = "app" -> {"Multi-city"}
      [] v = "updatedapp" -> {"Home", "City Map"}
      [] OTHER -> {"single"}

\* st.cache_data(ttl=...), in seconds.
Ttl(v) == IF v = "test7" THEN 300 ELSE 900

\* The seconds between a run and a widget change that starts the next: at
\* once, or after every ttl has passed (no tick arrives while the timer is
\* not armed or the browser holds the tab's timers back).
Pauses == {0, 900}

\* What the provider answers in these runs: two forecasts, or a failure.
RfResponses ==
    {Hourly(<<<<-200, 30>>, <<-50, 200>>>>), Hourly(<<<<-50, 200>>>>), FetchError}

\* The number of requests.get calls made for city c in this run.
Attempts(c) == IF c \in DOMAIN requests THEN Len(requests[c]) ELSE 0

\* Faulty variant of the cache lookup: an entry never expires.
MutHitForever(c) == c \in DOMAIN cache
\* st.cache_data holds an entry for c that is younger than ttl.
Hit(c) == c \in DOMAIN cache /\ now - cache[c].stored < Ttl(variant)

\* Faulty variant of the cache write: a raised exception is stored as well.
MutStoreFailure(c, data) == (c :> [data |-> data, stored |-> now]) @@ cache
\* st.cache_data stores what fetch_forecast returns; an exception passes through.
Store(c, data) ==
    IF data.kind = "error" THEN cache
    ELSE (c :> [data |-> data, stored |-> now]) @@ cache

\* The verify argument of the n-th requests.get of one fetch_forecast call.
Verify(v, n) ==
    CASE v = "updatedapp" -> IF n = 1 THEN "certifi" ELSE "off"
      [] v \in TestFamily -> "off"
      [] OTHER -> "default"

\* The series the fetch loop builds from response r.
SeriesOf(r) == IF variant = "test7" THEN BuildObserved(r) ELSE BuildDf(r, hours).df

\* One pass of the variant's fetch loop on what fetch_forecast returned or raised.
Loop(city, data) ==
    CASE variant \in TestFamily -> LoopTest(city, data)
      [] variant = "app" -> LoopApp(city, data)
      [] variant = "updatedapp" -> LoopUpdated(city, data)
      [] variant = "test7" -> LoopTest7(city, data)

\* Faulty variant: the run appends to the dict of the run before.
MutKeepCityDfs == city_dfs
\* city_dfs = {}
NewCityDfs == <<>>

\* Faulty variant: the run appends to the list of the run before.
MutKeepExtremeCities == extreme_cities
\* extreme_cities = []
NewExtremeCities == <<>>

\* What the run that now ends took and showed.
Snapshot ==
    [pc |-> pc, multi_cities |-> multi_cities, hours |-> hours,
     provider |-> provider, compare_df |-> compare_df,
     extreme_cities |-> extreme_cities, alerts |-> alerts]

\* The script starts again d seconds later with selection sel and h hours.
\* The request a superseded run waits for stays in flight.
StartRun(sel, h, d) ==
    /\ cycle < MaxCycles
    /\ cycle' = cycle + 1
    /\ now' = now + d
    /\ prev' = Snapshot
    /\ multi_cities' = sel
    /\ hours' = h
    /\ i' = 1
    /\ provider' = <<>>
    /\ requests' = <<>>
    /\ city_dfs' = NewCityDfs
    /\ extreme_cities' = NewExtremeCities
    /\ errors' = <<>>
    /\ compare_df' = NoTable
    /\ ranking' = NoTable
    /\ alerts' = <<>>
    /\ exc' = "none"
    /\ late' = IF pc = "waiting" THEN late \cup {multi_cities[i]} ELSE late
    /\ pc' = IF sel = <<>> THEN "views" ELSE "fetch"
    /\ timer' = st_autorefresh(variant, page, refresh)
    /\ buttons' = {}
    /\ UNCHANGED <<variant, page, cache, cfg_threshold, refresh, speed>>
    /\ UNCHANGED wcvars

\* st_autorefresh was rendered by this run (updatedapp.py: not on the map).
Armed == timer # 0

\* The timer of st_autorefresh fires: the same settings again.
RefreshTick ==
    /\ Armed
    /\ StartRun(multi_cities, hours, timer)

\* The user changes the selection or moves the hours slider: every change
\* of a widget starts a run.
Interact ==
    \E sel \in Selections(Cities(variant)), h \in 1..MaxHours, d \in Pauses :
        /\ (sel # multi_cities /\ h = hours) \/ (sel = multi_cities /\ h # hours)
        /\ StartRun(sel, h, d)

\* fetch_forecast(lat, lon) on a cached entry: the stored value, no request.
CacheHit ==
    /\ pc = "fetch" /\ variant \in RfVariants
    /\ Hit(multi_cities[i])
    /\ provider' = (multi_cities[i] :> cache[multi_cities[i]].data) @@ provider
    /\ Loop(multi_cities[i], cache[multi_cities[i]].data)
    /\ UNCHANGED rfvars

\* fetch_forecast(lat, lon) without a cached entry: requests.get is called,
\* once no other run computes the entry.
StartRequest ==
    /\ pc = "fetch" /\ variant \in RfVariants
    /\ ~Hit(multi_cities[i])
    /\ multi_cities[i] \notin late
    /\ pc' = "waiting"
    /\ requests' = (multi_cities[i] :> <<Verify(variant, 1)>>) @@ requests
    /\ UNCHANGED <<variant, page, multi_cities, hours, i, provider, city_dfs,
                   extreme_cities, errors, compare_df, ranking, alerts, exc>>
    /\ UNCHANGED <<cycle, now, cache, late, prev, cfg_threshold>>
    /\ UNCHANGED wcvars
    /\ UNCHANGED navvars

\* updatedapp.py: the first requests.get raises SSLError and the except
\* branch calls requests.get again with verify=False.
SslRetry ==
    /\ pc = "waiting" /\ variant = "updatedapp"
    /\ Len(requests[multi_cities[i]]) = 1
    /\ requests' = [requests EXCEPT ![multi_cities[i]] = Append(@, Verify(variant, 2))]
    /\ UNCHANGED plvars
    /\ UNCHANGED <<cycle, now, cache, late, prev, cfg_threshold>>
    /\ UNCHANGED wcvars
    /\ UNCHANGED navvars

\* The request returns or raises; the loop goes on with the outcome.
Response ==
    /\ pc = "waiting"
    /\ \E data \in RfResponses :
        /\ provider' = (multi_cities[i] :> data) @@ provider
        /\ cache' = Store(multi_cities[i], data)
        /\ Loop(multi_cities[i], data)
    /\ UNCHANGED <<cycle, now, requests, late, prev, cfg_threshold>>

\* Faulty variant: the superseded run assigns into the dict of the new run.
MutLateWriteShared(c, data) ==
    IF data.kind = "hourly" THEN Append(city_dfs, [city |-> c, df |-> SeriesOf(data)])
    ELSE city_dfs
\* city_dfs[city] = df in a superseded run binds in that run's own dict:
\* the dict of the run in progress is as it was.
LateWrite(c, data) == city_dfs

\* The request of a superseded run returns: st.cache_data stores the value
\* and that run goes on in its own namespace up to its next st.* call.
LateResponse ==
    /\ \E c \in late, data \in RfResponses :
        /\ cache' = Store(c, data)
        /\ late' = late \ {c}
        /\ city_dfs' = LateWrite(c, data)
    /\ UNCHANGED <<variant, page, multi_cities, hours, pc, i, provider,
                   extreme_cities, errors, compare_df, ranking, alerts, exc>>
    /\ UNCHANGED <<cycle, now, requests, prev, cfg_threshold>>
    /\ UNCHANGED wcvars
    /\ UNCHANGED navvars

InitRefresh ==
    /\ Init
    /\ variant \in RfVariants
    /\ page \in RfPages(variant)

NextRefresh ==
    \/ CacheHit
    \/ StartRequest
    \/ SslRetry
    \/ Response
    \/ LateResponse
    \/ RefreshTick
    \/ Interact
    \/ RenderTest2
    \/ RenderTest3
    \/ RenderApp
    \/ RenderUpdated
    \/ RenderTest7

SpecRefresh == InitRefresh /\ [][NextRefresh]_vars

----------------------------------------------------------------------------
(* Properties of the script runs.                                           *)

\* C13: within one run at most one request is made per selected location:
\* no retry and no escalation, whatever the failure.
C13_SingleAttempt == \A c \in DOMAIN requests : Len(requests[c]) <= 1

\* The fetch of city c failed in the run before this one.
PrevFailed(c) ==
    /\ prev.pc # "none"
    /\ c \in DOMAIN prev.provider
    /\ prev.provider[c].kind = "error"

\* City c is in every view this run has built.
InViews(c) ==
    /\ HasDf(c)
    /\ compare_df.built => c \in RangeOf(compare_df.cols)
    /\ ranking.built => \E k \in DOMAIN ranking.rows : ranking.rows[k].City = c

C15_CacheWithin900 ==
    [][(pc = "fetch" /\ cycle' = cycle /\ late' = late) =>
        LET c == multi_cities[i] IN
        IF c \in DOMAIN cache /\ now - cache[c].stored < 900
        THEN /\ c \notin DOMAIN requests'
             /\ provider'[c] = cache[c].data
        ELSE /\ c \in DOMAIN requests'
             /\ Len(requests'[c]) >= 1]_vars

\* C15, amended: the responses are cached read-through by (latitude,
\* longitude) for the script's own time-to-live (900 s; 300 s in test7.py):
\* a fetch within it makes no request and yields the cached response,
\* whatever the hours; the first fetch after it makes a request.
C15_CacheWithinTtl ==
    [][(pc = "fetch" /\ cycle' = cycle /\ late' = late) =>
        LET c == multi_cities[i] IN
        IF c \in DOMAIN cache /\ now - cache[c].stored < Ttl(variant)
        THEN /\ c \notin DOMAIN requests'
             /\ provider'[c] = cache[c].data
        ELSE /\ c \in DOMAIN requests'
             /\ Len(requests'[c]) >= 1]_vars

\* A run with other hours than the run before it reused the response cached
\* by that run without a request.
C15_Witness ==
    /\ pc = "done" /\ prev.pc = "done" /\ hours # prev.hours
    /\ \E c \in DOMAIN provider :
        /\ Attempts(c) = 0 /\ c \in DOMAIN prev.provider
        /\ provider[c] = prev.provider[c]

\* C16: every run starts from an empty working set: city_dfs and the alert
\* set hold only locations selected and fetched with success in this run,
\* each with the series of this run's response and hours.
C16_FreshWorkingSet ==
    /\ \A k \in DOMAIN city_dfs :
        LET c == city_dfs[k].city IN
        /\ c \in Selected
        /\ c \in DOMAIN provider
        /\ provider[c].kind = "hourly"
        /\ city_dfs[k].df = SeriesOf(provider[c])
        /\ \A j \in DOMAIN city_dfs : city_dfs[j].city = c => j = k
    /\ AlertSet \subseteq RangeOf(DfKeys)
    /\ Len(extreme_cities) = Cardinality(RangeOf(extreme_cities))

\* Both cities were shown by the run before; in this run one is deselected
\* and the fetch of the other fails: the working set is empty.
C16_Witness ==
    /\ variant = "test2" /\ pc = "done" /\ prev.pc = "done"
    /\ Len(prev.compare_df.cols) = 2 /\ prev.extreme_cities # <<>>
    /\ Len(multi_cities) = 1
    /\ provider[multi_cities[1]].kind = "error"
    /\ city_dfs = <<>> /\ extreme_cities = <<>> /\ ~compare_df.built

\* C17: two runs with the same selection, hours, threshold and provider
\* responses show the same comparison table and the same alert set.
C17_Idempotent ==
    (/\ pc = "done" /\ prev.pc = "done"
     /\ prev.multi_cities = multi_cities
     /\ prev.hours = hours
     /\ prev.provider = provider)
    => /\ compare_df = prev.compare_df
       /\ extreme_cities = prev.extreme_cities
       /\ RangeOf(alerts) = RangeOf(prev.alerts)

\* Two such runs of test2.py over two cities: one city is fetched (the
\* second time from the cache) and in the alert set, the request for the
\* other fails both times.
C17_Witness ==
    /\ variant = "test2" /\ pc = "done" /\ prev.pc = "done"
    /\ prev.multi_cities = multi_cities /\ prev.hours = hours
    /\ prev.provider = provider
    /\ Len(multi_cities) = 2
    /\ Len(compare_df.cols) = 1 /\ Len(extreme_cities) = 1
    /\ \E c \in DOMAIN provider : Attempts(c) = 1

\* The run before this one was superseded in flight.
Superseded == prev.pc \in {"fetch", "waiting", "views"}

----------------------------------------------------------------------------
(* The empty selection.                                                     *)

\* C19: with no location selected the run is a valid empty state: no fetch,
\* empty series map, comparison, ranking and alert set, and no exception,
\* in every variant and on every page.
C19_EmptySelectionValid ==
    (multi_cities = <<>> /\ Finished) =>
        /\ pc = "done" /\ exc = "none"
        /\ provider = <<>>
        /\ city_dfs = <<>> /\ extreme_cities = <<>> /\ alerts = <<>>
        /\ compare_df.built => Empty(compare_df)
        /\ ranking.built => ranking.rows = <<>>

----------------------------------------------------------------------------
(* The settings widgets.  In this specification `hours` is the slider's    *)
(* own value (6 .. 72), not the scaled horizon of the pipeline, and the    *)
(* run is followed up to the point where its fetch begins.                 *)

\* The scripts with settings widgets or a fetch: the seven variants and the
\* single-city test.py.
CfgVariants == Variants \cup {"test"}

\* The scripts with an hours slider, and those with a threshold input.
HasHoursSlider(v) == v # "test7"
HasThresholdInput(v) == v \notin {"test", "test7"}

\* st.slider(label, min_value, max_value, value): the bounds of the hours slider.
SliderMin(v) == IF v = "test" THEN 6 ELSE 12
SliderMax(v) == IF v = "test" THEN 48 ELSE 72

\* The values a user tries to give the hours, and the threshold (degC).
HoursTried == {0, 5, 6, 11, 12, 24, 48, 49, 72, 73, 1000}
ThresholdsTried == {-1000, -273, -40, -20, 0, 10, 1000}

\* Faulty variant of the slider: any value is taken.
MutSliderUnchecked(lo, hi, cur, v) == v
\* st.slider offers the values lo .. hi only: a value outside them is not
\* taken and the slider stays where it is.
slider(lo, hi, cur, v) == IF lo <= v /\ v <= hi THEN v ELSE cur

\* st.number_input(label, value=-20) has neither min_value nor max_value:
\* every number is taken.
number_input(cur, v) == v

InitConfig ==
    /\ WindChillIdle
    /\ variant \in CfgVariants
    /\ page = "none" /\ multi_cities = <<"Oslo">> /\ hours = 24
    /\ pc = "sidebar" /\ i = 0 /\ provider = <<>> /\ city_dfs = <<>>
    /\ extreme_cities = <<>> /\ errors = <<>> /\ compare_df = NoTable
    /\ ranking = NoTable /\ alerts = <<>> /\ exc = "none"
    /\ cycle = 1 /\ now = 0 /\ cache = <<>> /\ requests = <<>>
    /\ late = {} /\ prev = NoPrev /\ cfg_threshold = -20
    /\ refresh = Interval /\ speed = 5 /\ timer = 0 /\ buttons = {}

\* The user moves the hours slider, or tries to.
SetHours ==
    /\ pc = "sidebar" /\ HasHoursSlider(variant)
    /\ \E v \in HoursTried :
        hours' = slider(SliderMin(variant), SliderMax(variant), hours, v)
    /\ UNCHANGED <<variant, page, multi_cities, pc, i, provider, city_dfs,
                   extreme_cities, errors, compare_df, ranking, alerts, exc>>
    /\ UNCHANGED rfvars
    /\ UNCHANGED wcvars
    /\ UNCHANGED navvars

\* The user types a threshold.
SetThreshold ==
    /\ pc = "sidebar" /\ HasThresholdInput(variant)
    /\ \E v \in ThresholdsTried : cfg_threshold' = number_input(cfg_threshold, v)
    /\ UNCHANGED plvars
    /\ UNCHANGED <<cycle, now, cache, requests, late, prev>>
    /\ UNCHANGED wcvars
    /\ UNCHANGED navvars

\* The script goes on from the widgets, past st_autorefresh, to its fetch.
BeginFetch ==
    /\ pc = "sidebar"
    /\ pc' = "fetch"
    /\ i' = 1
    /\ timer' = st_autorefresh(variant, page, refresh)
    /\ UNCHANGED <<variant, page, multi_cities, hours, provider, city_dfs,
                   extreme_cities, errors, compare_df, ranking, alerts, exc>>
    /\ UNCHANGED <<refresh, speed, buttons>>
    /\ UNCHANGED rfvars
    /\ UNCHANGED wcvars

\* The next run of the script: back at the widgets.
NextRun ==
    /\ pc = "fetch"
    /\ pc' = "sidebar"
    /\ i' = 0
    /\ UNCHANGED <<variant, page, multi_cities, hours, provider, city_dfs,
                   extreme_cities, errors, compare_df, ranking, alerts, exc>>
    /\ UNCHANGED rfvars
    /\ UNCHANGED wcvars
    /\ UNCHANGED navvars

NextConfig ==
    \/ SetHours
    \/ SetThreshold
    \/ BeginFetch
    \/ NextRun

SpecConfig == InitConfig /\ [][NextConfig]_vars

----------------------------------------------------------------------------
(* The order of the samples.                                                *)

\* A sequence of timestamps in strictly ascending order.
Ascending(seq) == \A j, k \in DOMAIN seq : j < k => seq[j] < seq[k]

TimesOf(rows) == [k \in DOMAIN rows |-> rows[k].Time]

\* C21: a series keeps the provider's order: sample j of the series is
\* sample j of the provider arrays, so its timestamps ascend strictly
\* whenever the provider's do, and the rows of a comparison table built from
\* such series are in ascending timestamp order.
C21_ProviderOrderKept ==
    /\ \A k \in DOMAIN city_dfs :
        LET r == provider[city_dfs[k].city]
            df == city_dfs[k].df
        IN  WellFormed(r) =>
                /\ \A j \in DOMAIN df :
                    /\ df[j].Time = r.time[j]
                    /\ df[j].Wind = r.windspeed_10m[j]
                    /\ df[j].Temp = IF r.temperature_2m[j] = Null THEN NaN
                                    ELSE r.temperature_2m[j]
                /\ Ascending(r.time) => Ascending(TimesOf(df))
    /\ (/\ compare_df.built
        /\ \A k \in DOMAIN city_dfs : Ascending(provider[city_dfs[k].city].time))
       => Ascending(TimesOf(compare_df.rows))

\* The Home page of test4.py joined a series of the hours 2, 3 with a series
\* of the hours 1, 2: the table's rows are the hours 1, 2, 3.
C21_Witness ==
    /\ variant = "test4" /\ page = "Home" /\ pc = "done"
    /\ Len(city_dfs) = 2
    /\ TimesOf(city_dfs[1].df) = <<2, 3>>
    /\ TimesOf(city_dfs[2].df) = <<1, 2>>
    /\ TimesOf(compare_df.rows) = <<1, 2, 3>>

----------------------------------------------------------------------------
(* wind_chill called twice on the same arguments, the module-level state   *)
(* of the script (the alert threshold, the clock) changing in between.     *)

\* The user types another threshold, or time passes, between the two calls.
ChangeBetweenCalls ==
    /\ wc_pc = "ret"
    /\ \E v \in ThresholdsTried, d \in {0, Interval} :
        /\ cfg_threshold' = number_input(cfg_threshold, v)
        /\ now' = d
    /\ UNCHANGED <<cycle, cache, requests, late, prev>>
    /\ UNCHANGED plvars
    /\ UNCHANGED wcvars
    /\ UNCHANGED navvars

\* The second call, with the arguments of the first.
CallAgain ==
    /\ wc_pc = "ret"
    /\ wc_pc' = "again"
    /\ wc_out' = Append(wc_out, wind_chill(wc_T, wc_V))
    /\ wc_pow' = wc_pow \o PowArg(wc_T, wc_V)
    /\ UNCHANGED <<wc_T, wc_V>>
    /\ UNCHANGED plvars
    /\ UNCHANGED rfvars
    /\ UNCHANGED navvars

NextRepeat ==
    \/ CallWindChill
    \/ ChangeBetweenCalls
    \/ CallAgain

SpecRepeat == InitWC /\ [][NextRepeat]_vars

----------------------------------------------------------------------------
(* Further properties of the script runs.                                   *)

\* C23: every request to the provider is made with TLS certificate
\* verification enabled (requests' default, or a CA bundle), in every variant.
C23_AlwaysVerified ==
    \A c \in DOMAIN requests :
        \A k \in DOMAIN requests[c] : requests[c][k] \in {"default", "certifi"}

----------------------------------------------------------------------------
(* Navigation.  test5.py and wind-chill-app.py keep the page in            *)
(* st.session_state and change it in the on_click callback of a button;    *)
(* updatedapp.py reads it from a selectbox of the sidebar.  Every click,   *)
(* every change of a sidebar widget and every tick of the timer runs the   *)
(* script again.                                                           *)

MaxNavRuns == 3

NavVariants == {"test5", "app", "updatedapp"}

\* Values of the auto-refresh slider (30 .. 600 s).
RefreshTried == {30, Interval}

\* def go_to_page(page_name): st.session_state.page = page_name
go_to_page(page_name) == page_name

\* Faulty variant: the page is set to "Home" by every run.
MutSessionPageReset(first, cur) == "Home"
\* if "page" not in st.session_state: st.session_state.page = "Home"
session_page(first, cur) == IF first THEN "Home" ELSE cur

\* The default of the multiselect: ["Oslo", "Bergen"] in test5.py, every
\* city in wind-chill-app.py; in updatedapp.py HOME_DEFAULT on the Home page
\* and every city on the others.
DefaultSelection(v, p) ==
    IF v = "updatedapp" /\ p = "Home" THEN <<"Oslo">> ELSE <<"Oslo", "Mo i Rana">>

\* The selection after updatedapp.py's selectbox went from page p to page q:
\* the multiselect is a new widget, at its default, when its default changed.
SelectionOnPage(p, q) ==
    IF DefaultSelection("updatedapp", p) = DefaultSelection("updatedapp", q)
    THEN multi_cities
    ELSE DefaultSelection("updatedapp", q)

\* The first run of a session: the page is "Home", the widgets at their defaults.
InitNav ==
    /\ WindChillIdle
    /\ FirstRun
    /\ variant \in NavVariants
    /\ page = session_page(TRUE, "none")
    /\ multi_cities = DefaultSelection(variant, page)
    /\ hours \in 1..MaxHours
    /\ timer = st_autorefresh(variant, page, refresh)
    /\ pc = "fetch" /\ i = 1 /\ provider = <<>> /\ city_dfs = <<>>
    /\ extreme_cities = <<>> /\ errors = <<>> /\ compare_df = NoTable
    /\ ranking = NoTable /\ alerts = <<>> /\ exc = "none"

\* The script runs again after event ev (with the button's page as target),
\* d seconds later, with page p, selection sel and refresh slider r.
Rerun(ev, target, d, p, sel, r) ==
    /\ cycle < MaxNavRuns
    /\ cycle' = cycle + 1
    /\ now' = now + d
    /\ prev' = [pc |-> pc, page |-> page, event |-> ev, target |-> target]
    /\ page' = session_page(FALSE, p)
    /\ multi_cities' = sel
    /\ refresh' = r
    /\ timer' = st_autorefresh(variant, page', r)
    /\ buttons' = {}
    /\ i' = 1
    /\ provider' = <<>>
    /\ city_dfs' = NewCityDfs
    /\ extreme_cities' = NewExtremeCities
    /\ errors' = <<>>
    /\ compare_df' = NoTable
    /\ ranking' = NoTable
    /\ alerts' = <<>>
    /\ exc' = "none"
    /\ pc' = IF sel = <<>> THEN "views" ELSE "fetch"
    /\ UNCHANGED <<variant, hours, speed, cache, requests, late, cfg_threshold>>
    /\ UNCHANGED wcvars

\* One pass of the fetch loop.
NavFetch ==
    /\ pc = "fetch"
    /\ \E data \in RfResponses :
        /\ provider' = (multi_cities[i] :> data) @@ provider
        /\ Loop(multi_cities[i], data)
    /\ UNCHANGED rfvars

\* A navigation button of the finished run is clicked: its callback runs,
\* then the script.
Click ==
    /\ Finished
    /\ \E b \in buttons : Rerun("click", b, 0, go_to_page(b), multi_cities, refresh)

\* The timer in the page fires.
NavTick ==
    /\ Finished
    /\ timer # 0
    /\ Rerun("tick", "none", timer, page, multi_cities, refresh)

\* The user changes the selection or the refresh slider.
NavSidebar ==
    /\ Finished
    /\ \E sel \in Selections(Cities(variant)), r \in RefreshTried :
        /\ (sel # multi_cities /\ r = refresh) \/ (sel = multi_cities /\ r # refresh)
        /\ Rerun("sidebar", "none", 0, page, sel, r)

\* updatedapp.py: the user picks another page in the selectbox.
SelectPage ==
    /\ Finished /\ variant = "updatedapp"
    /\ \E q \in Pages(variant) \ {page} :
        Rerun("selectbox", q, 0, q, SelectionOnPage(page, q), refresh)

NextNav ==
    \/ NavFetch
    \/ RenderTest5
    \/ RenderApp
    \/ RenderUpdated
    \/ Click
    \/ NavTick
    \/ NavSidebar
    \/ SelectPage

SpecNav == InitNav /\ [][NextNav]_vars

\* C24: in updatedapp.py the timer is armed by a run if and only if the page
\* is not "City Map": on the map no tick is scheduled and none starts a
\* run; on every other page the timer runs with the refresh slider's value.
C24_TimerOffOnMapOnly ==
    variant = "updatedapp" =>
        /\ page = "City Map" => timer = 0
        /\ page # "City Map" => (timer = refresh /\ timer > 0)
        /\ (prev.pc # "none" /\ prev.event = "tick") => prev.page # "City Map"

\* The user went from Home to the map: the run on the map left no timer.
C24_Witness ==
    /\ variant = "updatedapp" /\ pc = "done"
    /\ prev.pc = "done" /\ prev.page = "Home" /\ prev.event = "selectbox"
    /\ page = "City Map" /\ timer = 0

\* C26: in test5.py and wind-chill-app.py the page is always one of the
\* variant's pages, is "Home" in the first run of a session, is the clicked
\* button's page after a click, and is left as it was by a tick and by a
\* change in the sidebar.
C26_PageChangesByButtonOnly ==
    variant \in {"test5", "app"} =>
        /\ page \in Pages(variant)
        /\ cycle = 1 => page = "Home"
        /\ prev.pc # "none" =>
            IF prev.event = "click"
            THEN page = prev.target /\ prev.target \in Pages(variant)
            ELSE page = prev.page

\* wind-chill-app.py: a click led to the heatmap, and the tick that followed
\* left the page the heatmap.
C26_Witness ==
    /\ variant = "app" /\ cycle = 3 /\ pc = "done"
    /\ prev.event = "tick" /\ prev.page = "Heatmap" /\ page = "Heatmap"

\* C27: every finished run of test5.py and wind-chill-app.py on a page other
\* than "Home" has rendered a Back-to-Home button, whatever the selection.
C27_BackToHomeOffered ==
    (variant \in {"test5", "app"} /\ Finished /\ page # "Home") => "Home" \in buttons

----------------------------------------------------------------------------
(* The red lines of test3.py's comparison chart, computed from summary_df  *)
(* (the frame `ranking`) and the columns of compare_df.                    *)

\* col.split(" ")[0] for the column f"{city} Wind Chill": the city's name up
\* to its first space.
FirstWord(city) ==
    CASE city = "Mo i Rana" -> "Mo"
      [] OTHER -> city

\* summary_df["Wind Chill (degC)"].min(): NaN entries are skipped.
coldest_wind_chill ==
    LET vals == {ranking.rows[k].Chill : k \in DOMAIN ranking.rows} \ {NaN}
    IN  IF vals = {} THEN NaN ELSE CHOOSE m \in vals : \A x \in vals : m <= x

\* summary_df[summary_df["Wind Chill (degC)"] == coldest_wind_chill]["City"].values
ColdestCities ==
    {ranking.rows[k].City : k \in {j \in DOMAIN ranking.rows :
        ranking.rows[j].Chill # NaN /\ ranking.rows[j].Chill = coldest_wind_chill}}

\* The cities whose wind-chill column gets "red" in line_colors.
RedLines == {c \in RangeOf(compare_df.cols) : FirstWord(c) \in ColdestCities}

\* The first-hour wind chills of the fetched cities.
FirstHourChills == {city_dfs[k].df[1].Chill : k \in DOMAIN city_dfs} \ {NaN}

\* C25: in test3.py the wind-chill line of a city is red if and only if the
\* city's first-hour wind chill is the minimum over the fetched cities, for
\* every city of the registry, "Mo i Rana" included.
C25_ColdestLinesRed ==
    (variant = "test3" /\ pc = "done" /\ compare_df.built) =>
        \A c \in RangeOf(DfKeys) :
            c \in RedLines <=>
                /\ DfOf(c)[1].Chill \in FirstHourChills
                /\ \A x \in FirstHourChills : DfOf(c)[1].Chill <= x

----------------------------------------------------------------------------
(* The animation of wind-chill-app.py and updatedapp.py, at the sliders'   *)
(* own scale: `hours` frames, each followed by time.sleep(speed), then the *)
(* code after the loop.  The timer of st_autorefresh runs in the browser   *)
(* from the moment the run renders it; when it fires, the run in progress  *)
(* stops at its next st.* call and the script starts again.  A frame is    *)
(* taken to cost its sleep only, so that a run is never slower here than   *)
(* it is in the browser.                                                   *)

\* Values of the three sliders: hours (12 .. 72), seconds per hour in tenths
\* (0.2 .. 2.0), refresh interval in seconds (30 .. 600).
AnimHours == {12, 24, 72}
AnimSpeeds == {2, 5, 20}
AnimRefresh == {30, 60, 600}

\* The pages with a loop over range(hours) and time.sleep(speed).
AnimPages(v) ==
    IF v = "app" THEN {"Multi-city", "Heatmap", "Cold Meter", "City Map"}
    ELSE {"Home", "Heatmap"}

\* A response with h clean samples.
AnimResponse(h) == Hourly([k \in 1..h |-> <<-50, 200>>])

\* Tenths of a second since the run rendered st_autorefresh: i sleeps.
Elapsed == i * speed

\* The timer has fired: the next st.* call ends the run.
TickDue == timer # 0 /\ Elapsed >= 10 * timer

\* The comparison chart of frame n: the rows up to hour n of every city.
RECURSIVE CompareFrame(_, _, _)
CompareFrame(cities, acc, n) ==
    IF cities = <<>> THEN acc
    ELSE LET temp == CityFrame(Head(cities), Slice(DfOf(Head(cities)), n))
         IN  CompareFrame(Tail(cities), IF Empty(acc) THEN temp ELSE InnerMerge(acc, temp), n)

\* A run has fetched its one city and enters the loop.
InitAnim ==
    /\ WindChillIdle
    /\ cycle = 1 /\ now = 0 /\ cache = <<>> /\ requests = <<>>
    /\ late = {} /\ prev = NoPrev /\ cfg_threshold = -20
    /\ variant \in {"app", "updatedapp"}
    /\ page \in AnimPages(variant)
    /\ multi_cities = <<"Oslo">>
    /\ hours \in AnimHours
    /\ speed \in AnimSpeeds
    /\ refresh \in AnimRefresh
    /\ timer = st_autorefresh(variant, page, refresh)
    /\ buttons = {}
    /\ pc = "animate" /\ i = 0
    /\ provider = ("Oslo" :> AnimResponse(hours))
    /\ city_dfs = <<[city |-> "Oslo", df |-> BuildDf(AnimResponse(hours), hours).df]>>
    /\ extreme_cities = <<>> /\ errors = <<>> /\ compare_df = NoTable
    /\ ranking = NoTable /\ alerts = <<>> /\ exc = "none"

\* One pass of the loop: the frame of hour i is drawn, then time.sleep(speed).
Frame ==
    /\ pc = "animate" /\ i < hours /\ ~TickDue
    /\ i' = i + 1
    /\ compare_df' = IF page \in {"Multi-city", "Home"}
                     THEN CompareFrame(multi_cities, EmptyFrame, i + 1)
                     ELSE compare_df
    /\ UNCHANGED <<variant, page, multi_cities, hours, pc, provider, city_dfs,
                   extreme_cities, errors, ranking, alerts, exc>>
    /\ UNCHANGED rfvars
    /\ UNCHANGED navvars
    /\ UNCHANGED wcvars

\* The code after the loop: the Back-to-Home button of wind-chill-app.py,
\* the forecast tables of updatedapp.py.
AfterLoop ==
    /\ pc = "animate" /\ i = hours /\ ~TickDue
    /\ pc' = "done"
    /\ buttons' = NavButtons(variant, page, multi_cities)
    /\ UNCHANGED <<variant, page, multi_cities, hours, i, provider, city_dfs,
                   extreme_cities, errors, compare_df, ranking, alerts, exc>>
    /\ UNCHANGED <<refresh, speed, timer>>
    /\ UNCHANGED rfvars
    /\ UNCHANGED wcvars

\* The timer fires: the script starts again, is served by the cache and
\* enters the loop anew.
AnimTick ==
    /\ pc \in {"animate", "done"} /\ cycle < MaxCycles
    /\ pc = "animate" => TickDue
    /\ cycle' = cycle + 1
    /\ now' = now + timer
    /\ prev' = [pc |-> pc, frames |-> i]
    /\ pc' = "animate"
    /\ i' = 0
    /\ compare_df' = NoTable
    /\ buttons' = {}
    /\ UNCHANGED <<variant, page, multi_cities, hours, provider, city_dfs,
                   extreme_cities, errors, ranking, alerts, exc>>
    /\ UNCHANGED <<cache, requests, late, cfg_threshold>>
    /\ UNCHANGED <<refresh, speed, timer>>
    /\ UNCHANGED wcvars

NextAnim ==
    \/ Frame
    \/ AfterLoop
    \/ AnimTick

SpecAnim == InitAnim /\ [][NextAnim]_vars

\* C28: for every combination of the sliders the animated pass reaches the
\* code after its loop before the next tick ends the run: no run is ended
\* by a tick while it is in the loop.
C28_AnimationCompletes == prev.pc # "none" => prev.pc = "done"

----------------------------------------------------------------------------
(* Series shorter than the horizon.                                         *)

\* The page blocks that address the samples of a city by hour index.
HourIndexedView ==
    \/ variant = "app" /\ page \in {"Home", "Heatmap", "Cold Meter", "City Map"}
    \/ variant = "updatedapp" /\ page \in {"Leaderboard", "Heatmap"}
    \/ variant = "test4" /\ page = "Wind Chill Heatmap"
    \/ variant = "test5" /\ page \in {"Wind Chill Matrix", "Cold Meter Dashboard"}

\* C29: when every selected city was fetched and the series of one of them
\* has fewer than `hours` samples, the run of a page with an hour-indexed
\* view ends without exception.
C29_ShortSeriesComputed ==
    (/\ Finished
     /\ HourIndexedView
     /\ ~AnyMissing
     /\ AnyShort) => exc = "none"

----------------------------------------------------------------------------
(* city_dfs and extreme_cities at the end of the fetch loop.                *)

NoRepeat(seq) == \A a, b \in DOMAIN seq : seq[a] = seq[b] => a = b

\* The elements of sub occur in seq, in the same order.
RECURSIVE InOrderOf(_, _)
InOrderOf(sub, seq) ==
    IF sub = <<>> THEN TRUE
    ELSE IF seq = <<>> THEN FALSE
    ELSE IF Head(sub) = Head(seq) THEN InOrderOf(Tail(sub), Tail(seq))
    ELSE InOrderOf(sub, Tail(seq))

\* C30: when the fetch loop has ended, the alerted cities are keys of
\* city_dfs, the keys of city_dfs are selected cities in the order of the
\* selection, and no city occurs twice in either.
C30_AlertsKeysSelection ==
    pc = "views" =>
        /\ RangeOf(extreme_cities) \subseteq RangeOf(DfKeys)
        /\ RangeOf(DfKeys) \subseteq RangeOf(multi_cities)
        /\ InOrderOf(DfKeys, multi_cities)
        /\ NoRepeat(DfKeys)
        /\ NoRepeat(extreme_cities)

\* Two cities fetched in the order of the selection, the second one alerted.
C30_Witness ==
    /\ pc = "views"
    /\ variant \in {"test2", "test5"}
    /\ Len(multi_cities) = 2
    /\ DfKeys = multi_cities
    /\ extreme_cities = <<multi_cities[2]>>

====
